---- MODULE Spec2Model ----
(***************************************************************************)
(* Model of Backend/server.js: the Express handlers GET /products,         *)
(* POST /product and POST /publish, the Redis cache key 'all_products',    *)
(* the SQLite table products, the Redis pub/sub relay to Socket.IO.        *)
(*                                                                         *)
(* Every handler is cut at its I/O boundaries (await / driver callback):   *)
(* one action per moment at which Redis or SQLite executes a call of the   *)
(* handler, together with the continuation that runs on its reply.         *)
(* The arrival of a request is merged with the first call it issues.       *)
(***************************************************************************)
EXTENDS Integers, Sequences, FiniteSets, TLC

VARIABLES
    store,      \* rows of table products, in rowid order
    lastID,     \* sqlite AUTOINCREMENT sequence (largest id ever assigned)
    cache,      \* Redis key 'all_products': [present, val, age, src]
    reads,      \* in-flight GET /products requests, per request slot
    writes,     \* in-flight POST /product requests, per request slot
    busQueue,   \* messages Redis has accepted, not yet handed to the listener
    subs,       \* listeners registered on redisSubscriber, per channel
    connected,  \* Socket.IO sessions currently connected
    nextSid,    \* next session identity
    inbox,      \* events each session has received, in order
    resp,       \* the request that ended in the last step: its response and what it did
    hist        \* history (ghost) variables used by the properties only

vars == <<store, lastID, cache, reads, writes, busQueue, subs,
          connected, nextSid, inbox, resp, hist>>

----------------------------------------------------------------------------
(* Bounds of the model *)

MaxProducts == 2
MaxPublishes == 1
MaxSessions == 2
TickStep == 1800

(* Program constants *)

TTL == 3600

Null == "null"
Missing == "undefined"

cacheKey == "all_products"
ProductChannel == "product_updates"
CustomChannel == "custom_channel"
OtherChannel == "alerts"

\* Request slots: two requests of each kind can be in flight at once.
Readers == {1, 2}
Writers == {1, 2}
Ids == 1..MaxProducts
Sids == 1..MaxSessions

NameInputs == {Missing, "", "Laptop Pro"}
ChannelInputs == {Missing, ProductChannel, CustomChannel, OtherChannel}
MessageInputs == {Missing, "", "hello"}

----------------------------------------------------------------------------
(* Pure helpers *)

\* JavaScript truthiness of a request field or of a Redis reply:
\* undefined, null and the empty string are falsy.
TruthyOnlyUndefined(v) == v # Missing
Truthy(v) == v # Null /\ v # Missing /\ v # ""

\* The same test on a Redis reply: a nil reply and the empty text are falsy.
TruthyReply(reply) == ~reply.nil /\ reply.text # <<>>

Tok(k, id, name) == [k |-> k, id |-> id, name |-> name]

\* JSON.stringify(rows): the text "[" obj* "]" as a sequence of tokens.
JSONstringify(rows) ==
    <<Tok("[", 0, "")>>
    \o [i \in 1..Len(rows) |-> Tok("obj", rows[i].id, rows[i].name)]
    \o <<Tok("]", 0, "")>>

\* JSON.parse(text) of a text produced by JSON.stringify.
JSONparse(text) ==
    [i \in 1..(Len(text) - 2) |-> [id |-> text[i + 1].id, name |-> text[i + 1].name]]

\* JSON.stringify({type: 'NEW_PRODUCT', payload: {id, name, description}})
NewProductMessage(id, name) ==
    [type |-> "NEW_PRODUCT", id |-> id, name |-> name]

\* A raw text payload of POST /publish, in the shape shared by all payloads.
RawMessage(text) ==
    [type |-> "raw", id |-> 0, name |-> text]

RowIds(rows) == {rows[i].id : i \in 1..Len(rows)}

----------------------------------------------------------------------------
(* Initial state: server started, table created and empty, Redis           *)
(* connected, both listeners registered, no session, no request.           *)

\* The key is absent (never set, deleted or expired; expired notes, for the
\* properties, that the last entry was dropped at the end of its ttl).
NoCache == [present |-> FALSE, val |-> <<>>, age |-> 0, src |-> 0,
            expired |-> FALSE]

\* A request record holds the handler's locals (rows, name, id), the
\* response (status, body, productId; status 0 = none written) and, for the
\* properties, what the request has done so far (overwrote: its set replaced
\* a different value, which a read overlapping it had set).
IdleRead ==
    [pc |-> "idle", status |-> 0, body |-> <<>>, rows |-> <<>>,
     seen |-> {}, startLen |-> 0, srcLen |-> 0,
     getFailed |-> FALSE, scanFailed |-> FALSE, setFailed |-> FALSE,
     scanned |-> FALSE, nSet |-> 0, expired |-> FALSE, overwrote |-> FALSE]

IdleWrite ==
    [pc |-> "idle", status |-> 0, name |-> Missing, id |-> 0, productId |-> 0,
     nIns |-> 0, nDel |-> 0, nPub |-> 0, pubTried |-> FALSE, failed |-> "none"]

IdlePub ==
    [pc |-> "idle", status |-> 0, channel |-> Missing, message |-> Missing,
     nPub |-> 0, failed |-> "none"]

\* No request ended in the last step.
NoResp == [op |-> "none", req |-> IdleRead]

\* The stale-read history (acked, staleOnce, staleTwice and the field seen
\* of a read) is recorded only when track is set, the expiry history (the
\* field expired of the key and of a read) only when ttl is set.
NoHist(track, ttl) ==
    [track |-> track, ttl |-> ttl, nPubs |-> 0, nMsgs |-> 0, invalLen |-> 0,
     acked |-> {}, staleOnce |-> {}, staleTwice |-> FALSE]

InitStateOf(h) ==
    /\ store = <<>>
    /\ lastID = 0
    /\ cache = NoCache
    /\ reads = [r \in Readers |-> IdleRead]
    /\ writes = [w \in Writers |-> IdleWrite]
    /\ busQueue = <<>>
    /\ subs = [c \in {ProductChannel, CustomChannel} |-> 1]
    /\ connected = {}
    /\ nextSid = 1
    /\ inbox = [s \in Sids |-> <<>>]
    /\ resp = NoResp
    /\ hist = h

InitState(track) == InitStateOf(NoHist(track, FALSE))

Init == InitState(FALSE)

----------------------------------------------------------------------------
(* GET /products  (server.js 111-139) *)

\* Requests are served in the lowest idle slot (slots are interchangeable).
FreeSlot(slots, x) ==
    /\ slots[x].pc = "idle"
    /\ \A y \in DOMAIN slots : y < x => slots[y].pc # "idle"

\* redisClient.get(cacheKey): the text held by the key, or nil when absent.
RedisGet == [nil |-> ~cache.present, text |-> cache.val]

\* Bookkeeping of a 200 response: a read that started after the 201 of
\* entity e and whose body lacks e is a stale read of e.  staleOnce holds
\* the entities that had a stale read, staleTwice tells that one had two.
StaleFor(seen, body) == {e \in seen : e \notin RowIds(body)}

NoteStale(seen, body) ==
    [hist EXCEPT !.staleOnce = @ \cup StaleFor(seen, body),
                 !.staleTwice = @ \/ (StaleFor(seen, body) \cap hist.staleOnce # {})]

\* A request that arrives now.
NewRead == [IdleRead EXCEPT !.seen = hist.acked, !.startLen = Len(store)]

\* Variant: the lookup error is swallowed and the read goes on to the store.
GetProductsCacheErrorFallsBack(r) ==
    /\ FreeSlot(reads, r)
    /\ reads' = [reads EXCEPT ![r] =
            [NewRead EXCEPT !.pc = "scan", !.srcLen = Len(store),
                            !.getFailed = TRUE]]
    /\ resp' = NoResp
    /\ UNCHANGED <<store, lastID, cache, writes, busQueue, subs,
                   connected, nextSid, inbox, hist>>

\* Request arrives, redisClient.get throws: the catch block answers 500.
GetProductsCacheError(r) ==
    /\ FreeSlot(reads, r)
    /\ resp' = [op |-> "GET", req |->
            [NewRead EXCEPT !.pc = "done", !.status = 500, !.getFailed = TRUE,
                            !.seen = {}]]
    /\ UNCHANGED <<store, lastID, cache, reads, writes, busQueue, subs,
                   connected, nextSid, inbox, hist>>

\* Variant: the cached text is answered without JSON.parse.
GetProductsHitNoParse(r) ==
    /\ FreeSlot(reads, r)
    /\ TruthyReply(RedisGet)
    /\ resp' = [op |-> "GET", req |->
            [NewRead EXCEPT !.pc = "done", !.status = 200,
                            !.body = RedisGet.text, !.srcLen = cache.src,
                            !.seen = {}]]
    /\ UNCHANGED <<store, lastID, cache, reads, writes, busQueue, subs,
                   connected, nextSid, inbox, hist>>

\* Variant: the lookup restarts the ttl of the entry it returns (GETEX).
GetProductsHitTouches(r) ==
    /\ FreeSlot(reads, r)
    /\ TruthyReply(RedisGet)
    /\ LET body == JSONparse(RedisGet.text) IN
        /\ resp' = [op |-> "GET", req |->
                [NewRead EXCEPT !.pc = "done", !.status = 200, !.body = body,
                                !.srcLen = cache.src, !.seen = {}]]
        /\ hist' = NoteStale(hist.acked, body)
    /\ cache' = [cache EXCEPT !.age = 0]
    /\ UNCHANGED <<store, lastID, reads, writes, busQueue, subs,
                   connected, nextSid, inbox>>

\* Request arrives, redisClient.get returns a truthy text: answer 200 with
\* JSON.parse of it.
GetProductsHit(r) ==
    /\ FreeSlot(reads, r)
    /\ TruthyReply(RedisGet)
    /\ LET body == JSONparse(RedisGet.text) IN
        /\ resp' = [op |-> "GET", req |->
                [NewRead EXCEPT !.pc = "done", !.status = 200, !.body = body,
                                !.srcLen = cache.src, !.seen = {}]]
        /\ hist' = NoteStale(hist.acked, body)
    /\ UNCHANGED <<store, lastID, cache, reads, writes, busQueue, subs,
                   connected, nextSid, inbox>>

\* Request arrives, redisClient.get returns a falsy value: db.all is issued.
GetProductsMiss(r) ==
    /\ FreeSlot(reads, r)
    /\ ~TruthyReply(RedisGet)
    /\ reads' = [reads EXCEPT ![r] =
            [NewRead EXCEPT !.pc = "scan", !.srcLen = Len(store),
                            !.expired = cache.expired]]
    /\ resp' = NoResp
    /\ UNCHANGED <<store, lastID, cache, writes, busQueue, subs,
                   connected, nextSid, inbox, hist>>

\* Variant: the failed scan still caches its (empty) rows before answering.
DbAllErrorCachesRows(r) ==
    /\ reads[r].pc = "scan"
    /\ cache' = [present |-> TRUE, val |-> JSONstringify(<<>>),
                 age |-> 0, src |-> reads[r].startLen, expired |-> FALSE]
    /\ resp' = [op |-> "GET", req |->
            [reads[r] EXCEPT !.pc = "done", !.status = 500, !.scanFailed = TRUE,
                             !.seen = {}]]
    /\ reads' = [reads EXCEPT ![r] = IdleRead]
    /\ UNCHANGED <<store, lastID, writes, busQueue, subs,
                   connected, nextSid, inbox, hist>>

\* SQLite runs SELECT * FROM products and fails: the callback answers 500.
DbAllError(r) ==
    /\ reads[r].pc = "scan"
    /\ resp' = [op |-> "GET", req |->
            [reads[r] EXCEPT !.pc = "done", !.status = 500, !.scanFailed = TRUE,
                             !.seen = {}]]
    /\ reads' = [reads EXCEPT ![r] = IdleRead]
    /\ UNCHANGED <<store, lastID, cache, writes, busQueue, subs,
                   connected, nextSid, inbox, hist>>

\* SQLite runs SELECT * FROM products; the callback issues setEx.
DbAll(r) ==
    /\ reads[r].pc = "scan"
    /\ reads' = [reads EXCEPT ![r].pc = "set", ![r].rows = store,
                              ![r].scanned = TRUE]
    /\ resp' = NoResp
    /\ UNCHANGED <<store, lastID, cache, writes, busQueue, subs,
                   connected, nextSid, inbox, hist>>

\* The key holds a value other than the text of rows.
Overwrites(rows) == cache.present /\ cache.val # JSONstringify(rows)

\* Variant: the set does not replace an entry that is present (SET NX).
SetExIfAbsent(r) ==
    /\ reads[r].pc = "set"
    /\ cache' = IF cache.present THEN cache
                ELSE [present |-> TRUE, val |-> JSONstringify(reads[r].rows),
                      age |-> 0, src |-> reads[r].startLen, expired |-> FALSE]
    /\ resp' = [op |-> "GET", req |->
            [reads[r] EXCEPT !.pc = "done", !.status = 200,
                             !.body = reads[r].rows, !.nSet = 1, !.seen = {},
                             !.overwrote = Overwrites(reads[r].rows)]]
    /\ reads' = [reads EXCEPT ![r] = IdleRead]
    /\ hist' = NoteStale(reads[r].seen, reads[r].rows)
    /\ UNCHANGED <<store, lastID, writes, busQueue, subs,
                   connected, nextSid, inbox>>

\* Redis runs SETEX all_products 3600 <text>; the callback answers 200 rows.
SetEx(r) ==
    /\ reads[r].pc = "set"
    /\ cache' = [present |-> TRUE, val |-> JSONstringify(reads[r].rows),
                 age |-> 0, src |-> reads[r].startLen, expired |-> FALSE]
    /\ resp' = [op |-> "GET", req |->
            [reads[r] EXCEPT !.pc = "done", !.status = 200,
                             !.body = reads[r].rows, !.nSet = 1, !.seen = {},
                             !.overwrote = Overwrites(reads[r].rows)]]
    /\ reads' = [reads EXCEPT ![r] = IdleRead]
    /\ hist' = NoteStale(reads[r].seen, reads[r].rows)
    /\ UNCHANGED <<store, lastID, writes, busQueue, subs,
                   connected, nextSid, inbox>>

\* redisClient.setEx rejects inside the async db.all callback: nothing
\* catches the rejection, no response is ever written for this request.
SetExError(r) ==
    /\ reads[r].pc = "set"
    /\ resp' = [op |-> "GET", req |->
            [reads[r] EXCEPT !.pc = "unanswered", !.setFailed = TRUE,
                             !.seen = {}]]
    /\ reads' = [reads EXCEPT ![r] = IdleRead]
    /\ UNCHANGED <<store, lastID, cache, writes, busQueue, subs,
                   connected, nextSid, inbox, hist>>

----------------------------------------------------------------------------
(* Redis pub/sub delivery *)

\* PUBLISH channel payload: Redis hands the message to the connection of
\* redisSubscriber when that connection is subscribed to the channel, and
\* the client runs every listener registered for the channel on it.
\* (mid numbers the publishes; atPub notes the sessions connected now.)
RedisPublish(channel, payload) ==
    IF channel \in DOMAIN subs
    THEN busQueue \o [i \in 1..subs[channel] |->
                        [ch |-> channel, msg |-> payload,
                         mid |-> hist.nMsgs + 1, atPub |-> connected]]
    ELSE busQueue

----------------------------------------------------------------------------
(* POST /product  (server.js 146-186) *)

\* !name: answer 400 before any side effect.
PostProductInvalid(w) ==
    /\ FreeSlot(writes, w)
    /\ \E name \in NameInputs :
        /\ ~Truthy(name)
        /\ resp' = [op |-> "POST", req |->
                [IdleWrite EXCEPT !.pc = "done", !.status = 400, !.name = name]]
    /\ UNCHANGED <<store, lastID, cache, reads, writes, busQueue, subs,
                   connected, nextSid, inbox, hist>>

\* Variant: the callback invalidates the cache before it looks at err.
PostProductDbErrorInvalidates(w) ==
    /\ FreeSlot(writes, w)
    /\ \E name \in NameInputs :
        /\ Truthy(name)
        /\ resp' = [op |-> "POST", req |->
                [IdleWrite EXCEPT !.pc = "done", !.status = 500, !.name = name,
                                  !.failed = "insert"]]
    /\ cache' = NoCache
    /\ UNCHANGED <<store, lastID, reads, writes, busQueue, subs,
                   connected, nextSid, inbox, hist>>

\* Variant: the handler writes the new row through to the cached snapshot
\* before the insert has reported its result.
PostProductDbErrorCachesRow(w) ==
    /\ FreeSlot(writes, w)
    /\ \E name \in NameInputs :
        /\ Truthy(name)
        /\ resp' = [op |-> "POST", req |->
                [IdleWrite EXCEPT !.pc = "done", !.status = 500, !.name = name,
                                  !.failed = "insert"]]
        /\ cache' = [present |-> TRUE,
                     val |-> JSONstringify(Append(store,
                                [id |-> lastID + 1, name |-> name])),
                     age |-> 0, src |-> Len(store), expired |-> FALSE]
    /\ UNCHANGED <<store, lastID, reads, writes, busQueue, subs,
                   connected, nextSid, inbox, hist>>

\* db.run INSERT fails: the callback answers 500 and returns.
PostProductDbError(w) ==
    /\ FreeSlot(writes, w)
    /\ \E name \in NameInputs :
        /\ Truthy(name)
        /\ resp' = [op |-> "POST", req |->
                [IdleWrite EXCEPT !.pc = "done", !.status = 500, !.name = name,
                                  !.failed = "insert"]]
    /\ UNCHANGED <<store, lastID, cache, reads, writes, busQueue, subs,
                   connected, nextSid, inbox, hist>>

\* Variant: the callback publishes right after the insert, without the
\* cache delete.
PostProductInsertSkipsDel(w) ==
    /\ FreeSlot(writes, w)
    /\ lastID < MaxProducts
    /\ \E name \in NameInputs :
        /\ Truthy(name)
        /\ lastID' = lastID + 1
        /\ store' = Append(store, [id |-> lastID + 1, name |-> name])
        /\ writes' = [writes EXCEPT ![w] =
                [IdleWrite EXCEPT !.pc = "publish", !.name = name,
                                  !.id = lastID + 1, !.nIns = 1]]
    /\ resp' = NoResp
    /\ UNCHANGED <<cache, reads, busQueue, subs,
                   connected, nextSid, inbox, hist>>

\* db.run INSERT commits the row under the next AUTOINCREMENT id; the
\* callback reads this.lastID and issues redisClient.del.
PostProductInsert(w) ==
    /\ FreeSlot(writes, w)
    /\ lastID < MaxProducts
    /\ \E name \in NameInputs :
        /\ Truthy(name)
        /\ lastID' = lastID + 1
        /\ store' = Append(store, [id |-> lastID + 1, name |-> name])
        /\ writes' = [writes EXCEPT ![w] =
                [IdleWrite EXCEPT !.pc = "del", !.name = name,
                                  !.id = lastID + 1, !.nIns = 1]]
    /\ resp' = NoResp
    /\ UNCHANGED <<cache, reads, busQueue, subs,
                   connected, nextSid, inbox, hist>>

\* Variant: the write refreshes the key with the current rows in place of
\* deleting it.
DelWritesThrough(w) ==
    /\ writes[w].pc = "del"
    /\ cache' = [present |-> TRUE, val |-> JSONstringify(store),
                 age |-> 0, src |-> Len(store), expired |-> FALSE]
    /\ writes' = [writes EXCEPT ![w].pc = "publish", ![w].nDel = 1]
    /\ hist' = [hist EXCEPT !.invalLen = Len(store)]
    /\ resp' = NoResp
    /\ UNCHANGED <<store, lastID, reads, busQueue, subs,
                   connected, nextSid, inbox>>

\* Redis runs DEL all_products; the callback builds the message and issues
\* the publish.
Del(w) ==
    /\ writes[w].pc = "del"
    /\ cache' = NoCache
    /\ writes' = [writes EXCEPT ![w].pc = "publish", ![w].nDel = 1]
    /\ hist' = [hist EXCEPT !.invalLen = Len(store)]
    /\ resp' = NoResp
    /\ UNCHANGED <<store, lastID, reads, busQueue, subs,
                   connected, nextSid, inbox>>

\* redisClient.del rejects inside the async db.run callback: nothing
\* catches it, the publish and the response are never reached.
DelError(w) ==
    /\ writes[w].pc = "del"
    /\ resp' = [op |-> "POST", req |->
            [writes[w] EXCEPT !.pc = "unanswered", !.failed = "del"]]
    /\ writes' = [writes EXCEPT ![w] = IdleWrite]
    /\ UNCHANGED <<store, lastID, cache, reads, busQueue, subs,
                   connected, nextSid, inbox, hist>>

\* Variant: the callback reads the id from the connection-wide sequence when
\* it publishes, not the lastID of its own statement.
PublishLatestId(w) ==
    /\ writes[w].pc = "publish"
    /\ busQueue' = RedisPublish(ProductChannel,
                                NewProductMessage(lastID, writes[w].name))
    /\ resp' = [op |-> "POST", req |->
            [writes[w] EXCEPT !.pc = "done", !.status = 201,
                              !.productId = lastID, !.nPub = 1,
                              !.pubTried = TRUE]]
    /\ writes' = [writes EXCEPT ![w] = IdleWrite]
    /\ hist' = [hist EXCEPT !.acked = IF hist.track THEN @ \cup {writes[w].id} ELSE @,
                            !.nMsgs = @ + 1]
    /\ UNCHANGED <<store, lastID, cache, reads, subs,
                   connected, nextSid, inbox>>

\* Redis runs PUBLISH product_updates <message>; the callback answers 201.
Publish(w) ==
    /\ writes[w].pc = "publish"
    /\ busQueue' = RedisPublish(ProductChannel,
                                NewProductMessage(writes[w].id, writes[w].name))
    /\ resp' = [op |-> "POST", req |->
            [writes[w] EXCEPT !.pc = "done", !.status = 201,
                              !.productId = writes[w].id, !.nPub = 1,
                              !.pubTried = TRUE]]
    /\ writes' = [writes EXCEPT ![w] = IdleWrite]
    /\ hist' = [hist EXCEPT !.acked = IF hist.track THEN @ \cup {writes[w].id} ELSE @,
                            !.nMsgs = @ + 1]
    /\ UNCHANGED <<store, lastID, cache, reads, subs,
                   connected, nextSid, inbox>>

\* redisPublisher.publish rejects inside the async db.run callback: the
\* response is never reached.
PublishError(w) ==
    /\ writes[w].pc = "publish"
    /\ resp' = [op |-> "POST", req |->
            [writes[w] EXCEPT !.pc = "unanswered", !.failed = "publish",
                              !.pubTried = TRUE]]
    /\ writes' = [writes EXCEPT ![w] = IdleWrite]
    /\ UNCHANGED <<store, lastID, cache, reads, busQueue, subs,
                   connected, nextSid, inbox, hist>>

----------------------------------------------------------------------------
(* POST /publish  (server.js 192-207) *)

\* !channel || !message: answer 400.
PostPublishInvalid ==
    /\ hist.nPubs < MaxPublishes
    /\ \E channel \in ChannelInputs, message \in MessageInputs :
        /\ ~Truthy(channel) \/ ~Truthy(message)
        /\ resp' = [op |-> "PUBLISH", req |->
                [IdlePub EXCEPT !.pc = "done", !.status = 400,
                                !.channel = channel, !.message = message]]
    /\ hist' = [hist EXCEPT !.nPubs = @ + 1]
    /\ UNCHANGED <<store, lastID, cache, reads, writes, busQueue, subs,
                   connected, nextSid, inbox>>

\* Variant: the handler reports a publish that reached no listener as a
\* failure.
PostPublishRequiresSubscriber ==
    /\ hist.nPubs < MaxPublishes
    /\ \E channel \in ChannelInputs, message \in MessageInputs :
        /\ Truthy(channel) /\ Truthy(message)
        /\ busQueue' = RedisPublish(channel, RawMessage(message))
        /\ resp' = [op |-> "PUBLISH", req |->
                [IdlePub EXCEPT !.pc = "done",
                                !.status = IF channel \in DOMAIN subs
                                           THEN 200 ELSE 500,
                                !.channel = channel, !.message = message,
                                !.nPub = 1]]
        /\ hist' = [hist EXCEPT !.nPubs = @ + 1, !.nMsgs = @ + 1]
    /\ UNCHANGED <<store, lastID, cache, reads, writes, subs,
                   connected, nextSid, inbox>>

\* Redis runs PUBLISH channel message; the handler answers 200.
PostPublish ==
    /\ hist.nPubs < MaxPublishes
    /\ \E channel \in ChannelInputs, message \in MessageInputs :
        /\ Truthy(channel) /\ Truthy(message)
        /\ busQueue' = RedisPublish(channel, RawMessage(message))
        /\ resp' = [op |-> "PUBLISH", req |->
                [IdlePub EXCEPT !.pc = "done", !.status = 200,
                                !.channel = channel, !.message = message,
                                !.nPub = 1]]
        /\ hist' = [hist EXCEPT !.nPubs = @ + 1, !.nMsgs = @ + 1]
    /\ UNCHANGED <<store, lastID, cache, reads, writes, subs,
                   connected, nextSid, inbox>>

\* Variant: the catch block logs the publish failure and answers 200.
PostPublishErrorSwallowed ==
    /\ hist.nPubs < MaxPublishes
    /\ \E channel \in ChannelInputs, message \in MessageInputs :
        /\ Truthy(channel) /\ Truthy(message)
        /\ resp' = [op |-> "PUBLISH", req |->
                [IdlePub EXCEPT !.pc = "done", !.status = 200,
                                !.channel = channel, !.message = message,
                                !.failed = "publish"]]
    /\ hist' = [hist EXCEPT !.nPubs = @ + 1]
    /\ UNCHANGED <<store, lastID, cache, reads, writes, busQueue, subs,
                   connected, nextSid, inbox>>

\* redisPublisher.publish rejects: the catch block answers 500.
PostPublishError ==
    /\ hist.nPubs < MaxPublishes
    /\ \E channel \in ChannelInputs, message \in MessageInputs :
        /\ Truthy(channel) /\ Truthy(message)
        /\ resp' = [op |-> "PUBLISH", req |->
                [IdlePub EXCEPT !.pc = "done", !.status = 500,
                                !.channel = channel, !.message = message,
                                !.failed = "publish"]]
    /\ hist' = [hist EXCEPT !.nPubs = @ + 1]
    /\ UNCHANGED <<store, lastID, cache, reads, writes, busQueue, subs,
                   connected, nextSid, inbox>>

----------------------------------------------------------------------------
(* Relay to Socket.IO  (server.js 91-101, 210-216) *)

\* The Socket.IO event each listener emits under.
EventOf(channel) ==
    IF channel = ProductChannel THEN "product_updated" ELSE "custom_channel"

\* Variant: the event reaches every session that ever connected.
IoEmitToAllEver(box, event, env) ==
    [s \in Sids |-> IF s < nextSid
                    THEN Append(box[s], [ev |-> event, msg |-> env.msg, mid |-> env.mid])
                    ELSE box[s]]

\* io.emit(event, message): one delivery to every connected session.
IoEmit(box, event, env) ==
    [s \in Sids |-> IF s \in connected
                    THEN Append(box[s], [ev |-> event, msg |-> env.msg, mid |-> env.mid])
                    ELSE box[s]]

\* Variant: the listener runs on the newest undelivered message.
RelayNewestFirst ==
    /\ busQueue # <<>>
    /\ LET env == busQueue[Len(busQueue)] IN
        inbox' = IoEmit(inbox, EventOf(env.ch), env)
    /\ busQueue' = SubSeq(busQueue, 1, Len(busQueue) - 1)
    /\ resp' = NoResp
    /\ UNCHANGED <<store, lastID, cache, reads, writes, subs,
                   connected, nextSid, hist>>

\* The listener of the channel runs on the oldest undelivered message.
Relay ==
    /\ busQueue # <<>>
    /\ LET env == Head(busQueue) IN
        inbox' = IoEmit(inbox, EventOf(env.ch), env)
    /\ busQueue' = Tail(busQueue)
    /\ resp' = NoResp
    /\ UNCHANGED <<store, lastID, cache, reads, writes, subs,
                   connected, nextSid, hist>>

\* Variant: every new session registers one more listener per relay topic.
ConnectSubscribes ==
    /\ nextSid <= MaxSessions
    /\ connected' = connected \cup {nextSid}
    /\ nextSid' = nextSid + 1
    /\ subs' = [c \in DOMAIN subs |-> subs[c] + 1]
    /\ resp' = NoResp
    /\ UNCHANGED <<store, lastID, cache, reads, writes, busQueue,
                   inbox, hist>>

\* io.on('connection'): a new session joins; nothing else is done.
Connect ==
    /\ nextSid <= MaxSessions
    /\ connected' = connected \cup {nextSid}
    /\ nextSid' = nextSid + 1
    /\ resp' = NoResp
    /\ UNCHANGED <<store, lastID, cache, reads, writes, busQueue,
                   subs, inbox, hist>>

\* socket.on('disconnect'): the session leaves.
Disconnect(s) ==
    /\ s \in connected
    /\ connected' = connected \ {s}
    /\ resp' = NoResp
    /\ UNCHANGED <<store, lastID, cache, reads, writes, busQueue,
                   subs, nextSid, inbox, hist>>

----------------------------------------------------------------------------
(* Time: TickStep seconds pass; Redis drops the key once it has been held *)
(* for the ttl given to setEx.                                             *)

\* Variant: the entry outlives its ttl.
TickKeepsEntry ==
    /\ cache.present
    /\ cache' = IF cache.age >= TTL
                THEN cache
                ELSE [cache EXCEPT !.age = @ + TickStep]
    /\ resp' = NoResp
    /\ UNCHANGED <<store, lastID, reads, writes, busQueue, subs,
                   connected, nextSid, inbox, hist>>

Tick ==
    /\ cache.present
    /\ cache' = IF cache.age + TickStep >= TTL
                THEN [NoCache EXCEPT !.expired = hist.ttl]
                ELSE [cache EXCEPT !.age = @ + TickStep]
    /\ resp' = NoResp
    /\ UNCHANGED <<store, lastID, reads, writes, busQueue, subs,
                   connected, nextSid, inbox, hist>>

----------------------------------------------------------------------------
(* Specifications *)

ReadSteps ==
    \/ \E r \in Readers : GetProductsCacheError(r)
    \/ \E r \in Readers : GetProductsHit(r)
    \/ \E r \in Readers : GetProductsMiss(r)
    \/ \E r \in Readers : DbAllError(r)
    \/ \E r \in Readers : DbAll(r)
    \/ \E r \in Readers : SetEx(r)
    \/ \E r \in Readers : SetExError(r)

WriteSteps ==
    \/ \E w \in Writers : PostProductInvalid(w)
    \/ \E w \in Writers : PostProductDbError(w)
    \/ \E w \in Writers : PostProductInsert(w)
    \/ \E w \in Writers : Del(w)
    \/ \E w \in Writers : DelError(w)
    \/ \E w \in Writers : Publish(w)
    \/ \E w \in Writers : PublishError(w)

PublishSteps ==
    \/ PostPublishInvalid
    \/ PostPublish
    \/ PostPublishError

SessionSteps ==
    \/ Relay
    \/ Connect
    \/ \E s \in Sids : Disconnect(s)

\* The whole server.
Next == ReadSteps \/ WriteSteps \/ PublishSteps \/ SessionSteps \/ Tick

Spec == Init /\ [][Next]_vars

\* The cache protocol: reads, writes and the passing of time.  The steps
\* left out (POST /publish, sessions, relay) leave store, cache, reads and
\* writes unchanged.
NextCache == ReadSteps \/ WriteSteps \/ Tick

SpecCache == Init /\ [][NextCache]_vars

\* The cache protocol with the stale-read history recorded.
InitStale == InitState(TRUE)

SpecStale == InitStale /\ [][NextCache]_vars

\* The cache protocol with the expiry history recorded.
InitExpiry == InitStateOf(NoHist(FALSE, TRUE))

SpecExpiry == InitExpiry /\ [][NextCache]_vars

\* The notification path: writes, custom publishes, sessions and the relay.
NextBus == WriteSteps \/ PublishSteps \/ SessionSteps

SpecBus == Init /\ [][NextBus]_vars

\* The three HTTP operations together, without sessions and the passing of
\* time (published messages stay on the bus).
NextHttp == ReadSteps \/ WriteSteps \/ PublishSteps

SpecHttp == Init /\ [][NextHttp]_vars

----------------------------------------------------------------------------
(* Properties *)

WriteEnded == resp.op = "POST"
ReadEnded == resp.op = "GET"

\* The numbers a publish can get.
Mids == 1..(MaxProducts + MaxPublishes)

\* The sessions that have received message m as an entity-change event.
Receivers(m) ==
    {s \in Sids : \E i \in 1..Len(inbox[s]) :
        inbox[s][i].mid = m /\ inbox[s][i].ev = "product_updated"}

\* Message m of the reserved topic is relayed in this step.
RelaysProductMessage(m) ==
    /\ busQueue # <<>>
    /\ Head(busQueue).mid = m
    /\ Head(busQueue).ch = ProductChannel
    /\ busQueue' = Tail(busQueue)

\* A POST /product arrives in this step and ends in the same step.
WriteEndsOnArrival ==
    /\ writes' = writes
    /\ resp'.op = "POST"

\* C1: once POST /product has returned 201 for entity e, at most one
\* GET /products that starts afterwards returns a collection without e.
C1_AtMostOneStaleRead ==
    ~hist.staleTwice

\* C2: a cache entry holds a Record Store state that existed at or after
\* the most recent completed cache delete of a write, never an older one.
C2_CacheNotOlderThanInvalidation ==
    cache.present =>
        \E k \in hist.invalLen..Len(store) :
            JSONparse(cache.val) = SubSeq(store, 1, k)

C4_InvalidNameRejected ==
    /\ [][(WriteEndsOnArrival /\ resp'.req.name \in {Missing, ""})
            => (/\ resp'.req.status = 400
                /\ resp'.req.nIns = 0 /\ resp'.req.nDel = 0 /\ resp'.req.nPub = 0
                /\ UNCHANGED <<store, lastID, cache, busQueue>>)]_vars
    /\ [](\A w \in Writers :
            writes[w].pc # "idle" => writes[w].name \notin {Missing, ""})

\* C4 witness: an empty name was answered 400 while the store and the cache
\* held data.
C4_Witness ==
    /\ WriteEnded
    /\ resp.req.status = 400
    /\ resp.req.name = ""
    /\ Len(store) >= 1
    /\ cache.present

\* C5 (as stated): a message on the reserved topic is received by exactly
\* the sessions that were connected when it was published.
C5_ReceivedByThoseConnectedAtPublish ==
    [][\A m \in Mids :
        RelaysProductMessage(m) => Receivers(m)' = Head(busQueue).atPub]_vars

\* C5 (amended): a message on the reserved topic is received by exactly the
\* sessions connected when the gateway relays it: the set of its receivers
\* is empty until the relay, becomes the connected sessions in the relay
\* step and never changes in any other step (no replay to later sessions).
C5_ReceivedByThoseConnectedAtRelay ==
    [][\A m \in Mids :
        IF RelaysProductMessage(m)
        THEN Receivers(m) = {} /\ Receivers(m)' = connected
        ELSE Receivers(m)' = Receivers(m)]_vars

\* C5 witness: a session has received a message of the reserved topic and
\* a session that connected after that relay is connected without it.
C5_Witness ==
    \E s \in Sids, t \in connected :
        /\ s < t
        /\ inbox[t] = <<>>
        /\ \E i \in 1..Len(inbox[s]) :
              inbox[s][i].ev = "product_updated" /\ inbox[s][i].msg.type = "NEW_PRODUCT"

\* C6: a POST /product whose insert fails is answered 500 and neither
\* deletes the cache entry nor publishes; only a request whose row is in the
\* store reaches the cache delete or the publish.
C6_InsertFailureStops ==
    /\ [][(WriteEndsOnArrival /\ resp'.req.failed = "insert")
            => (/\ resp'.req.status = 500
                /\ resp'.req.nDel = 0 /\ resp'.req.nPub = 0
                /\ UNCHANGED <<store, lastID, cache, busQueue>>)]_vars
    /\ [](\A w \in Writers :
            writes[w].pc \in {"del", "publish"} => writes[w].id \in RowIds(store))

\* C6 witness: an insert failed while the cache held an entry.
C6_Witness ==
    /\ WriteEnded
    /\ resp.req.failed = "insert"
    /\ resp.req.status = 500
    /\ cache.present

\* C7: after a successful insert the request is never aborted: the row
\* stays, the publish is attempted even if the cache delete failed, and the
\* caller receives 201 with the assigned id.
C7_BestEffortAfterInsert ==
    (WriteEnded /\ resp.req.nIns = 1) =>
        /\ resp.req.id \in RowIds(store)
        /\ resp.req.pubTried
        /\ resp.req.status = 201
        /\ resp.req.productId = resp.req.id

\* C8: a read whose scan succeeded and whose cache set failed still answers
\* 200 with the scanned rows.
C8_SetFailureStillServes ==
    (ReadEnded /\ resp.req.scanned /\ resp.req.setFailed) =>
        (resp.req.status = 200 /\ resp.req.body = resp.req.rows)

\* C9 (as stated): a failed cache lookup never fails the read: it is served
\* with 200.
C9_GetFailureSwallowed ==
    (ReadEnded /\ resp.req.getFailed) => resp.req.status = 200

\* C9 (amended): a failed cache lookup ends the read with 500; the store is
\* not scanned and the cache is not written by that request.
C9_GetFailureAnswers500 ==
    (ReadEnded /\ resp.req.getFailed) =>
        (resp.req.status = 500 /\ ~resp.req.scanned /\ resp.req.nSet = 0)

\* C9 witness: the lookup failed while the store held a row to serve.
C9_Witness ==
    /\ ReadEnded
    /\ resp.req.getFailed
    /\ resp.req.status = 500
    /\ Len(store) >= 1

\* C10: a read whose scan fails ends with 500 and the step leaves the cache
\* as it was; the request performed no set.
C10_ScanFailureLeavesCache ==
    [][\A r \in Readers :
        (reads[r].pc = "scan" /\ reads'[r].pc # "set" /\ reads'[r] # reads[r])
            => (/\ resp'.op = "GET"
                /\ resp'.req.scanFailed
                /\ resp'.req.status = 500
                /\ resp'.req.nSet = 0
                /\ cache' = cache)]_vars

\* C10 witness: a scan failed while the cache held an entry set by another
\* read.
C10_Witness ==
    /\ ReadEnded
    /\ resp.req.scanFailed
    /\ resp.req.status = 500
    /\ cache.present

\* A POST /publish ended in the last step.
PublishEnded == resp.op = "PUBLISH"

\* The publish numbers of the messages waiting for the listener.
QueuedMids == {busQueue[i].mid : i \in 1..Len(busQueue)}

\* C11: a message published with 200 through POST /publish on any topic
\* other than the reserved one, while sessions are connected, is handed to
\* the gateway for relay to the connected sessions.
C11_AnyCustomTopicRelayed ==
    (/\ PublishEnded
     /\ resp.req.status = 200
     /\ resp.req.channel # ProductChannel
     /\ connected # {})
    => (/\ busQueue # <<>>
        /\ busQueue[Len(busQueue)].mid = hist.nMsgs
        /\ busQueue[Len(busQueue)].msg = RawMessage(resp.req.message))

\* C12: every entity-change event ('product_updated') a session has received
\* is the NEW_PRODUCT message of an entity that is in the Record Store.
C12_ReservedTopicOnlyEntityEvents ==
    \A s \in Sids : \A i \in 1..Len(inbox[s]) :
        inbox[s][i].ev = "product_updated" =>
            /\ inbox[s][i].msg.type = "NEW_PRODUCT"
            /\ \E k \in 1..Len(store) :
                  inbox[s][i].msg = NewProductMessage(store[k].id, store[k].name)

\* The insert of request w commits in this step.
InsertsIn(w) ==
    /\ writes[w].pc = "idle"
    /\ writes'[w].pc = "del"

\* C13: the ids in the Record Store start at 1 and strictly increase; an
\* insert gets an id greater than every id assigned before (also while
\* another write is in flight); a 201 response returns the id of the row
\* the request stored, and the change event it published carries that id.
C13_IdsIncreaseAndAgree ==
    /\ [](/\ (Len(store) >= 1 => store[1].id = 1)
          /\ \A i, j \in 1..Len(store) : i < j => store[i].id < store[j].id
          /\ \A i \in 1..Len(store) : store[i].id <= lastID)
    /\ [][\A w \in Writers : InsertsIn(w) =>
            /\ writes'[w].id > lastID
            /\ writes'[w].id \notin RowIds(store)
            /\ store' = Append(store, [id |-> writes'[w].id,
                                       name |-> writes'[w].name])]_vars
    /\ []((WriteEnded /\ resp.req.status = 201) =>
            /\ resp.req.productId = resp.req.id
            /\ \E k \in 1..Len(store) :
                  store[k] = [id |-> resp.req.id, name |-> resp.req.name]
            /\ busQueue # <<>>
            /\ busQueue[Len(busQueue)].msg =
                  NewProductMessage(resp.req.productId, resp.req.name))

\* C13 witness: the first write got 201 with id 1 while a second write,
\* which inserted id 2 in between, is still in flight.
C13_Witness ==
    /\ WriteEnded
    /\ resp.req.status = 201
    /\ resp.req.productId = 1
    /\ lastID = 2
    /\ \E w \in Writers : writes[w].pc \in {"del", "publish"} /\ writes[w].id = 2

\* The statuses section 6 documents for GET /products and POST /product.
DocumentedStatus == {200, 201, 400, 500}

\* C14: a GET /products or POST /product that has ended has given its
\* caller a response with a documented status (status 0 = none written).
C14_EndsWithDocumentedStatus ==
    (ReadEnded \/ WriteEnded) =>
        (resp.req.pc = "done" /\ resp.req.status \in DocumentedStatus)

\* A GET /products arrives in this step and ends in the same step.
ReadEndsOnArrival ==
    /\ reads' = reads
    /\ resp'.op = "GET"

\* C15: an entry is never held for the ttl of 3600 or longer, so a get
\* later than that finds the key absent; a read that arrives while the key
\* is absent is not served from the cache (it goes on to the scan), and the
\* set that follows its scan stores a new entry with a full ttl.
C15_ExpiredEntryAbsent ==
    /\ [](cache.present => cache.age < TTL)
    /\ [][(ReadEndsOnArrival /\ ~cache.present) => resp'.req.getFailed]_vars
    /\ [][\A r \in Readers :
            (reads[r].pc = "set" /\ resp'.op = "GET" /\ resp'.req.nSet = 1
                /\ resp'.req.expired /\ reads'[r].pc = "idle")
            => (/\ resp'.req.scanned
                /\ cache'.present
                /\ cache'.age = 0
                /\ JSONparse(cache'.val) = resp'.req.body)]_vars

\* C15 witness: with no write since the entry was set, the entry expired
\* and the next read missed, scanned the store and set the key again.
C15_Witness ==
    /\ ReadEnded
    /\ resp.req.expired
    /\ resp.req.status = 200
    /\ resp.req.scanned
    /\ resp.req.nSet = 1
    /\ Len(store) >= 1
    /\ resp.req.body = store
    /\ hist.invalLen = Len(store)
    /\ \A w \in Writers : writes[w].pc = "idle"
    /\ cache.present
    /\ cache.age = 0

\* The sessions that have received message m under any event name.
Observers(m) ==
    {s \in Sids : \E i \in 1..Len(inbox[s]) : inbox[s][i].mid = m}

\* The listener takes message m from the bus in this step.
RelaysMessage(m) ==
    /\ busQueue # <<>>
    /\ Head(busQueue).mid = m
    /\ busQueue' = Tail(busQueue)

\* A validated POST /publish whose publish did not fail answers 200.
PublishAnswers200 ==
    (/\ PublishEnded
     /\ Truthy(resp.req.channel) /\ Truthy(resp.req.message)
     /\ resp.req.failed = "none")
    => (resp.req.status = 200 /\ resp.req.nPub = 1)

\* C16 (as stated): a validated POST /publish answers 200 whatever the
\* sessions and listeners are, and a message published while no session is
\* connected is received by no session.
C16_LostWhenNoSessionAtPublish ==
    /\ []PublishAnswers200
    /\ [][\A m \in Mids :
            (RelaysMessage(m) /\ Head(busQueue).atPub = {})
                => Observers(m)' = {}]_vars

\* C16 (amended): a validated POST /publish answers 200 whatever the
\* sessions and listeners are; a message is received by the sessions
\* connected when the listener relays it, so it is lost when none is
\* connected then; the relay takes it off the bus, later publishes get new
\* numbers, and no other step changes who has received it.
C16_LostWhenNoSessionAtRelay ==
    /\ []PublishAnswers200
    /\ [][\A m \in Mids :
            IF RelaysMessage(m)
            THEN /\ Observers(m)' = connected
                 /\ m \notin QueuedMids'
                 /\ m <= hist.nMsgs
            ELSE Observers(m)' = Observers(m)]_vars
    /\ [][\A m \in QueuedMids' \ QueuedMids : m > hist.nMsgs]_vars

\* C16 witness: sessions have come and gone, none is connected, and a
\* POST /publish on 'custom_channel' has just been answered 200 with its
\* message on the way to the listener.
C16_Witness ==
    /\ PublishEnded
    /\ resp.req.status = 200
    /\ resp.req.channel = CustomChannel
    /\ connected = {}
    /\ nextSid > 1
    /\ busQueue # <<>>
    /\ busQueue[Len(busQueue)].msg = RawMessage(resp.req.message)

\* C17: a POST /publish whose channel or message is missing or empty is
\* answered 400 and hands nothing to the bus; a validated POST /publish
\* whose publish fails is answered 500.
C17_PublishValidatedAndFailureSurfaced ==
    /\ [][(/\ resp'.op = "PUBLISH"
           /\ resp'.req.channel \in {Missing, ""} \/ resp'.req.message \in {Missing, ""})
          => (/\ resp'.req.status = 400
              /\ resp'.req.nPub = 0
              /\ UNCHANGED <<busQueue, inbox>>)]_vars
    /\ [][(resp'.op = "PUBLISH" /\ resp'.req.failed = "publish")
          => (/\ resp'.req.status = 500
              /\ resp'.req.nPub = 0
              /\ resp'.req.channel \notin {Missing, ""}
              /\ resp'.req.message \notin {Missing, ""}
              /\ UNCHANGED <<busQueue, inbox>>)]_vars

\* C17 witness: the publish of a validated POST /publish failed while a
\* session was connected, and the caller got 500.
C17_Witness ==
    /\ PublishEnded
    /\ resp.req.failed = "publish"
    /\ resp.req.status = 500
    /\ resp.req.channel = CustomChannel
    /\ connected # {}

\* The ids of the entities whose change event has been published: those on
\* the bus and those sessions have received.
PublishedIds ==
    {busQueue[i].msg.id : i \in {j \in 1..Len(busQueue) :
                                    busQueue[j].msg.type = "NEW_PRODUCT"}}
    \cup UNION {{inbox[s][i].msg.id : i \in {j \in 1..Len(inbox[s]) :
                                    inbox[s][j].msg.type = "NEW_PRODUCT"}}
                : s \in Sids}

\* C18: a write waits for its cache delete only with its row committed,
\* waits for its publish only with its cache delete done, and answers 201
\* only with its message handed to the bus; the change event of an entity
\* is on the bus or at a session only when the write of that entity is past
\* its publish; the cache delete step leaves the key absent.
C18_StepsInOrder ==
    /\ [](\A w \in Writers :
            /\ writes[w].pc = "del" =>
                  /\ writes[w].id \in RowIds(store)
                  /\ writes[w].nIns = 1 /\ writes[w].nDel = 0 /\ writes[w].nPub = 0
            /\ writes[w].pc = "publish" =>
                  /\ writes[w].id \in RowIds(store)
                  /\ writes[w].nIns = 1 /\ writes[w].nDel = 1 /\ writes[w].nPub = 0
            /\ writes[w].pc # "idle" => writes[w].id \notin PublishedIds)
    /\ []((WriteEnded /\ resp.req.status = 201) =>
            /\ resp.req.nIns = 1 /\ resp.req.nDel = 1 /\ resp.req.nPub = 1
            /\ busQueue # <<>>
            /\ busQueue[Len(busQueue)].msg.id = resp.req.id)
    /\ [][\A w \in Writers :
            (writes[w].pc = "del" /\ writes'[w].pc = "publish")
                => (cache' = NoCache /\ UNCHANGED <<store, busQueue, inbox>>)]_vars

\* C18 witness: a session has received the change event of entity 1 while
\* the write of entity 2 has inserted its row and not yet deleted the key.
C18_Witness ==
    /\ \E s \in Sids : \E i \in 1..Len(inbox[s]) :
          inbox[s][i].msg.type = "NEW_PRODUCT" /\ inbox[s][i].msg.id = 1
    /\ \E w \in Writers : writes[w].pc = "del" /\ writes[w].id = 2

\* C19: nothing stops a read that missed from scanning and setting while
\* another read is doing the same, and every set replaces whatever the key
\* holds: right after the set of a read the key holds that read's rows
\* with a full ttl.
C19_LastSetWins ==
    (ReadEnded /\ resp.req.nSet = 1) =>
        /\ resp.req.scanned
        /\ cache.present
        /\ cache.val = JSONstringify(resp.req.rows)
        /\ cache.age = 0

\* C19 witness: two overlapping reads both missed, both scanned and both
\* set; the second set replaced the different value of the first, both
\* reads have finished and the key holds the value of the second set.
C19_Witness ==
    /\ ReadEnded
    /\ resp.req.nSet = 1
    /\ resp.req.scanned
    /\ resp.req.overwrote
    /\ \A r \in Readers : reads[r].pc = "idle"
    /\ cache.present
    /\ cache.val = JSONstringify(resp.req.rows)

\* The number of times session s has received message m.
Copies(s, m) ==
    Cardinality({i \in 1..Len(inbox[s]) : inbox[s][i].mid = m})

\* C20: each of the two relay topics has one listener registration at all
\* times, whatever sessions connect or disconnect; a published message is
\* on the bus at most once, the relay gives each connected session one
\* copy, and no session ever holds two copies of a message.
C20_OneRegistrationExactlyOnce ==
    /\ [](subs = [c \in {ProductChannel, CustomChannel} |-> 1])
    /\ [](\A i, j \in 1..Len(busQueue) :
            i # j => busQueue[i].mid # busQueue[j].mid)
    /\ [](\A s \in Sids : \A m \in Mids : Copies(s, m) <= 1)
    /\ [][\A m \in Mids : RelaysMessage(m) =>
            \A s \in Sids :
                Copies(s, m)' = IF s \in connected THEN 1 ELSE 0]_vars

\* C20 witness: a second session has connected and the first message has
\* reached both sessions, once each.
C20_Witness ==
    /\ Cardinality(connected) = 2
    /\ \A s \in connected : Copies(s, 1) = 1 /\ Len(inbox[s]) = 1

\* What a session receives when the listener runs on envelope env.
Delivery(env) ==
    [ev |-> EventOf(env.ch), msg |-> env.msg, mid |-> env.mid]

\* C21: the events of one topic are in every inbox in the order of their
\* publishes (publish numbers increase), as they are on the bus; an inbox
\* grows only by the delivery of the oldest message on the bus, with the
\* payload that was published, and that delivery reaches every connected
\* session; the payload on the bus is the one the request published.
C21_FifoVerbatim ==
    /\ [](\A s \in Sids : \A i, j \in 1..Len(inbox[s]) :
            (i < j /\ inbox[s][i].ev = inbox[s][j].ev)
                => inbox[s][i].mid < inbox[s][j].mid)
    /\ [](\A i, j \in 1..Len(busQueue) :
            (i < j /\ busQueue[i].ch = busQueue[j].ch)
                => busQueue[i].mid < busQueue[j].mid)
    /\ [][\A s \in Sids : inbox'[s] # inbox[s] =>
            /\ busQueue # <<>>
            /\ busQueue' = Tail(busQueue)
            /\ inbox'[s] = Append(inbox[s], Delivery(Head(busQueue)))]_vars
    /\ [][\A m \in Mids : RelaysMessage(m) =>
            \A s \in connected : inbox'[s] # inbox[s]]_vars
    /\ []((PublishEnded /\ resp.req.status = 200
              /\ resp.req.channel \in DOMAIN subs) =>
            /\ busQueue # <<>>
            /\ busQueue[Len(busQueue)].ch = resp.req.channel
            /\ busQueue[Len(busQueue)].msg = RawMessage(resp.req.message))

\* C21 witness: a connected session holds the change events of entities 1
\* and 2, in that order.
C21_Witness ==
    \E s \in connected :
        /\ Len(inbox[s]) = 2
        /\ inbox[s][1].ev = "product_updated"
        /\ inbox[s][2].ev = "product_updated"
        /\ inbox[s][1].msg.id = 1
        /\ inbox[s][2].msg.id = 2

\* C22: the cached text, when the key is present, is the serialisation of
\* an initial part of the Record Store rows (the rows at the moment of some
\* scan), so each of its entities is a row of the store.
C22_CacheIsPrefixOfStore ==
    cache.present =>
        /\ Len(cache.val) >= 2
        /\ cache.val = JSONstringify(JSONparse(cache.val))
        /\ \E k \in 0..Len(store) : JSONparse(cache.val) = SubSeq(store, 1, k)
        /\ RowIds(JSONparse(cache.val)) \subseteq RowIds(store)

\* C22 witness: an insert has just failed while the key holds a non-empty
\* snapshot that is older than the store.
C22_Witness ==
    /\ WriteEnded
    /\ resp.req.failed = "insert"
    /\ cache.present
    /\ Len(JSONparse(cache.val)) >= 1
    /\ Len(JSONparse(cache.val)) < Len(store)

\* The kind of request that takes a step.
StepOfGet == reads' # reads \/ resp'.op = "GET"
StepOfPostProduct == writes' # writes \/ resp'.op = "POST"
StepOfPostPublish == resp'.op = "PUBLISH"

\* C23: a step of GET /products leaves the Record Store and the bus as they
\* are; a cache hit has neither scanned nor set and leaves the key as it
\* is; a step of POST /publish leaves the Record Store and the key as they
\* are; a step of POST /product leaves the key as it is or absent.
C23_FrameConditions ==
    /\ [][StepOfGet => UNCHANGED <<store, lastID, busQueue, inbox>>]_vars
    /\ [][(ReadEndsOnArrival /\ resp'.req.status = 200) =>
            /\ ~resp'.req.scanned
            /\ resp'.req.nSet = 0
            /\ cache.present
            /\ cache' = cache]_vars
    /\ [][StepOfPostPublish => UNCHANGED <<store, lastID, cache>>]_vars
    /\ [][StepOfPostProduct => (cache' = cache \/ cache' = NoCache)]_vars

\* C23 witness: with a message of POST /publish and the change event of a
\* write on the bus, a read has just been served from the cache.
C23_Witness ==
    /\ ReadEnded
    /\ resp.req.status = 200
    /\ ~resp.req.scanned
    /\ resp.req.body = store
    /\ Len(store) >= 1
    /\ \E i, j \in 1..Len(busQueue) :
          busQueue[i].msg.type = "raw" /\ busQueue[j].msg.type = "NEW_PRODUCT"

\* C24: the time an entry has been held restarts only with a set: a hit
\* leaves the key, its age included, as it is; in every step the entry
\* either stays with the same or a greater age, or is replaced by a set, or
\* leaves; it never reaches the age of 3600, and the cache delete of a write
\* removes it whatever its age.
C24_HitKeepsExpiry ==
    /\ [][(ReadEndsOnArrival /\ resp'.req.status = 200) =>
            (cache.present /\ cache'.age = cache.age /\ cache' = cache)]_vars
    /\ [][(cache.present /\ cache'.present) =>
            \/ cache'.val = cache.val /\ cache'.age >= cache.age
            \/ resp'.op = "GET" /\ resp'.req.nSet = 1 /\ cache'.age = 0]_vars
    /\ [](cache.present => cache.age < TTL)
    /\ [][\A w \in Writers :
            (writes[w].pc = "del" /\ writes'[w].pc = "publish")
                => ~cache'.present]_vars

\* C24 witness: a read has just hit a stale snapshot that has been held for
\* some time, and the snapshot keeps the age it had.
C24_Witness ==
    /\ ReadEnded
    /\ resp.req.status = 200
    /\ ~resp.req.scanned
    /\ cache.present
    /\ cache.age > 0
    /\ Len(resp.req.body) < Len(store)

====
